---- MODULE Spec2Model ----
(***************************************************************************)
(* Position tracking, geofence alerting and playback of the GPS tracker.   *)
(*                                                                         *)
(* The model follows the useTracking hook (one React state object that is  *)
(* replaced by functional updates, one interval timer for playback) and    *)
(* the change-feed handlers of the useSupabaseTracking hook.               *)
(*                                                                         *)
(* Coordinates are metres on a local tangent plane (north, east).  One     *)
(* thousandth of a degree is 111 m; for separations of a few hundred       *)
(* metres the Haversine distance is the planar distance, and the code only *)
(* ever compares a distance with a radius, so distances are kept squared.  *)
(***************************************************************************)
EXTENDS Integers, Sequences, FiniteSets, TLC

VARIABLES
    state,               \* useTracking: the TrackingState object
    playbackRef,         \* useTracking: playbackRef.current ("null", "live": handle of a running interval, "stale": handle of a cleared one)
    activeTimers,        \* number of playback intervals that are running
    initialPositionSet,  \* useTracking: initialPositionSet.current
    now,                 \* the clock reading Date.now() returns to the next handler
    received,            \* observation: every fix delivered to handlePosition, in arrival order
    appended,            \* observation: every position put into trackHistory, in order
    produced,            \* observation: every alert recorded, in order of recording
    run,                 \* observation: the playback run since the last startPlayback
    sb,                  \* useSupabaseTracking: currentPosition, trackHistory, allDevicePositions, allDeviceTrackHistory, alerts
    selectedDeviceId,    \* useSupabaseTracking: the selectedDeviceId option ("" when the hook is used without one)
    fed,                 \* observation: every position row and alert row the change feed delivered, in order
    page,                \* Index page: isPlaying, playbackIndex, playbackSpeed, simulationEnabled
    sim,                 \* useSupabaseTracking: simulationRef, running intervals, simulationStateRef, simulatePosition calls in flight
    store                \* the persisted store: rows written and not yet delivered by the change feed

vars == <<state, playbackRef, activeTimers, initialPositionSet, now,
          received, appended, produced, run,
          sb, selectedDeviceId, fed, page, sim, store>>

----------------------------------------------------------------------------
(* Bounds of the model *)

\* clock readings handed out in one behaviour of Spec (fixes + manual alerts + added fences)
MaxClock == 3

\* fixes received in one behaviour of SpecPlayback
MaxPlaybackFixes == 3

\* events after the warm-up in one behaviour of SpecLong
MaxLongExtra == 2

\* clock readings in one behaviour of SpecAlarm
MaxAlarmClock == 3

\* simulatePosition calls it takes a simulated device to travel one path
\* segment (the code moves 8 km/h * 2 s / 3600 of a segment's length per call)
StepsPerSegment == 2

\* position rows the simulator writes in one behaviour of SpecSim
MaxSimRows == 2

\* simulatePosition calls that may be in flight at once, and intervals that may
\* be running at once, in SpecSim
MaxSimRuns == 2

\* rows other writers put into the store in one behaviour of SpecSim
MaxForeignRows == 1

\* alert rows the manual alarms write in one behaviour of SpecSim
MaxAlarmRows == 1

\* positions the change feed delivers in one behaviour of SpecPage
MaxPageFixes == 3

\* program constants
HistoryKeep == 199
AlertCap == 50
ZoneProximity == 100
SignalThreshold == 20
SignalFloor == 5

----------------------------------------------------------------------------
(* Values *)

Null == [null |-> TRUE]

\* places a fix can report: the origin, a point 100 m from (-111,-111) and
\* more than 200 m from the origin, and a point exactly 200 m north of the origin
Locs == { [lat |-> 0, lng |-> 0], [lat |-> -111, lng |-> -211], [lat |-> 200, lng |-> 0] }

\* horizontal accuracy (metres) of a fix
Accuracies == { 70 }

\* value of Math.sin(Date.now() / 10000) * 20 at a fix
Variations == { 0, 20 }

\* arguments of setPlaybackIndex
SeekIndexes == -1 .. MaxClock

\* arguments of setPlaybackSpeed
Speeds == { 1, 2 }

Min(a, b) == IF a <= b THEN a ELSE b
Max(a, b) == IF a >= b THEN a ELSE b

\* Math.round of the rational n/d (d > 0): the nearest integer, halves upwards
RoundDiv(n, d) == (2 * n + d) \div (2 * d)

\* Array.prototype.slice(-k)
SliceLast(s, k) == IF Len(s) <= k THEN s ELSE SubSeq(s, Len(s) - k + 1, Len(s))

\* Array.prototype.slice(0, k)
SliceFirst(s, k) == IF Len(s) <= k THEN s ELSE SubSeq(s, 1, k)

\* array[i] with a JavaScript (0-based) index; Null for undefined
At(s, i) == IF i >= 0 /\ i < Len(s) THEN s[i + 1] ELSE Null

----------------------------------------------------------------------------
(* Pure functions of the hook *)

\* square of getDistance, in square metres
getDistance2(lat1, lon1, lat2, lon2) ==
    (lat2 - lat1) * (lat2 - lat1) + (lon2 - lon1) * (lon2 - lon1)

createMineZones(lat, lng) ==
    << [id |-> "zone-main-tunnel", name |-> "Main Tunnel",
        center |-> [lat |-> lat - 111, lng |-> lng - 222]],
       [id |-> "zone-extraction", name |-> "Extraction Zone A",
        center |-> [lat |-> lat - 56, lng |-> lng - 111]],
       [id |-> "zone-shaft", name |-> "Main Shaft",
        center |-> [lat |-> lat, lng |-> lng]],
       [id |-> "zone-emergency", name |-> "Emergency Exit",
        center |-> [lat |-> lat + 222, lng |-> lng + 111]] >>

createMineGeofences(lat, lng) ==
    << [id |-> <<"geofence-safe-zone">>, center |-> [lat |-> lat, lng |-> lng],
        radius |-> 200, isActive |-> TRUE, alertOnEnter |-> FALSE,
        alertOnExit |-> TRUE, zoneType |-> "safe"],
       [id |-> <<"geofence-hazard">>, center |-> [lat |-> lat - 111, lng |-> lng - 111],
        radius |-> 100, isActive |-> TRUE, alertOnEnter |-> TRUE,
        alertOnExit |-> FALSE, zoneType |-> "hazard"],
       [id |-> <<"geofence-emergency">>, center |-> [lat |-> lat + 222, lng |-> lng + 111],
        radius |-> 50, isActive |-> TRUE, alertOnEnter |-> FALSE,
        alertOnExit |-> FALSE, zoneType |-> "emergency_point"] >>

\* accuracy > 50: round(min(accuracy / 2, 200) + variation), else 0
calculateDepth(accuracy, variation) ==
    IF accuracy > 50
    THEN RoundDiv(Min(accuracy, 400) + 2 * variation, 2)
    ELSE 0

\* max(5, round(max(0, 100 - accuracy) - depth * 0.3))
calculateSignalStrength(accuracy, depth) ==
    Max(SignalFloor, RoundDiv(10 * Max(0, 100 - accuracy) - 3 * depth, 10))

RECURSIVE determineZoneFrom(_, _, _, _)
determineZoneFrom(lat, lng, zones, i) ==
    IF i > Len(zones) THEN "Surface"
    ELSE IF getDistance2(lat, lng, zones[i].center.lat, zones[i].center.lng)
              < ZoneProximity * ZoneProximity
         THEN zones[i].name
         ELSE determineZoneFrom(lat, lng, zones, i + 1)

determineZone(lat, lng, zones) == determineZoneFrom(lat, lng, zones, 1)

----------------------------------------------------------------------------
(* State updates of useTracking: each is the function handed to setState *)

InitialState ==
    [ currentPosition |-> Null,
      trackHistory    |-> << >>,
      device          |-> [status |-> "operational", lastPosition |-> Null],
      geofences       |-> << >>,
      alerts          |-> << >>,
      isPlaying       |-> FALSE,
      playbackIndex   |-> -1,
      playbackSpeed   |-> 1,
      mineZones       |-> << >>,
      isUnderground   |-> FALSE ]

\* fence.center to a position <= fence.radius
Inside(fence, pos) ==
    getDistance2(fence.center.lat, fence.center.lng, pos.latitude, pos.longitude)
        <= fence.radius * fence.radius

ExitAlert(fence, newPosition, t) ==
    [ id |-> <<"alert", t>>, type |-> "geofence_exit", isRead |-> FALSE,
      geofenceId |-> fence.id,
      priority |-> IF fence.zoneType = "safe" THEN "high" ELSE "medium",
      location |-> [lat |-> newPosition.latitude, lng |-> newPosition.longitude,
                    depth |-> newPosition.depth] ]

EnterAlert(fence, newPosition, t) ==
    [ id |-> <<"alert", t>>, type |-> "geofence_enter", isRead |-> FALSE,
      geofenceId |-> fence.id,
      priority |-> IF fence.zoneType = "hazard" THEN "critical" ELSE "low",
      location |-> [lat |-> newPosition.latitude, lng |-> newPosition.longitude,
                    depth |-> newPosition.depth] ]

SignalAlert(newPosition, t) ==
    [ id |-> <<"alert-signal", t>>, type |-> "signal_lost", isRead |-> FALSE,
      geofenceId |-> << >>,
      priority |-> "high",
      location |-> [lat |-> newPosition.latitude, lng |-> newPosition.longitude,
                    depth |-> newPosition.depth] ]

\* the body of geofences.forEach for one fence: newAlerts after it
FenceCheck(newAlerts, fence, lastPos, newPosition, t) ==
    IF ~fence.isActive \/ lastPos = Null THEN newAlerts
    ELSE LET wasInside == Inside(fence, lastPos)
             isInside  == Inside(fence, newPosition)
             afterExit == IF wasInside /\ ~isInside /\ fence.alertOnExit
                          THEN <<ExitAlert(fence, newPosition, t)>> \o newAlerts
                          ELSE newAlerts
         IN  IF ~wasInside /\ isInside /\ fence.alertOnEnter
             THEN <<EnterAlert(fence, newPosition, t)>> \o afterExit
             ELSE afterExit

RECURSIVE GeofenceAlerts(_, _, _, _, _, _)
GeofenceAlerts(newAlerts, geofences, i, lastPos, newPosition, t) ==
    IF i > Len(geofences) THEN newAlerts
    ELSE GeofenceAlerts(FenceCheck(newAlerts, geofences[i], lastPos, newPosition, t),
                        geofences, i + 1, lastPos, newPosition, t)

\* signalStrength < 20 && prev.currentPosition?.signalStrength && ... >= 20
SignalLost(lastPos, signalStrength) ==
    /\ signalStrength < SignalThreshold
    /\ lastPos # Null
    /\ lastPos.signalStrength # 0
    /\ lastPos.signalStrength >= SignalThreshold

\* the position built from a fix; ips is initialPositionSet.current
NewPosition(prev, fix, ips, t) ==
    LET depth     == calculateDepth(fix.accuracy, fix.variation)
        mineZones == IF ~ips THEN createMineZones(fix.lat, fix.lng) ELSE prev.mineZones
    IN  [ id |-> t, latitude |-> fix.lat, longitude |-> fix.lng, depth |-> depth,
          zone |-> determineZone(fix.lat, fix.lng, mineZones),
          signalStrength |-> calculateSignalStrength(fix.accuracy, depth) ]

\* the history kept one entry too long
NewHistoryKeepsAll(trackHistory, newPosition) ==
    SliceLast(trackHistory, HistoryKeep + 1) \o <<newPosition>>

NewHistory(trackHistory, newPosition) ==
    SliceLast(trackHistory, HistoryKeep) \o <<newPosition>>

\* the alert list cut at its old end
CapAlertsOldest(newAlerts) == SliceLast(newAlerts, AlertCap)

CapAlerts(newAlerts) == SliceFirst(newAlerts, AlertCap)

\* the alerts of handlePosition before the final slice(0, 50)
NewAlerts(prev, geofences, newPosition, t) ==
    LET fenced == GeofenceAlerts(prev.alerts, geofences, 1, prev.currentPosition,
                                 newPosition, t)
    IN  IF SignalLost(prev.currentPosition, newPosition.signalStrength)
        THEN <<SignalAlert(newPosition, t)>> \o fenced
        ELSE fenced

handlePositionUpdate(prev, fix, ips, t) ==
    IF prev.isPlaying THEN prev
    ELSE LET newPosition == NewPosition(prev, fix, ips, t)
             geofences   == IF ~ips THEN createMineGeofences(fix.lat, fix.lng)
                            ELSE prev.geofences
             mineZones   == IF ~ips THEN createMineZones(fix.lat, fix.lng)
                            ELSE prev.mineZones
         IN  [ prev EXCEPT
                 !.currentPosition = newPosition,
                 !.trackHistory    = NewHistory(prev.trackHistory, newPosition),
                 !.geofences       = geofences,
                 !.mineZones       = mineZones,
                 !.isUnderground   = (newPosition.depth > 10),
                 !.alerts          = CapAlerts(NewAlerts(prev, geofences, newPosition, t)),
                 !.device          = [prev.device EXCEPT !.lastPosition = newPosition] ]

ManualAlert(kind, priority, pos, t) ==
    [ id |-> <<kind, t>>, type |-> IF kind = "alert-emergency" THEN "emergency" ELSE "breakdown",
      isRead |-> FALSE, geofenceId |-> << >>, priority |-> priority,
      location |-> [lat |-> pos.latitude, lng |-> pos.longitude, depth |-> pos.depth] ]

\* the emergency alert recorded, the device status left as it was
triggerEmergencyKeepsStatus(prev, t) ==
    IF prev.currentPosition = Null THEN prev
    ELSE [ prev EXCEPT
             !.alerts = CapAlerts(<<ManualAlert("alert-emergency", "critical",
                                                prev.currentPosition, t)>> \o prev.alerts) ]

triggerEmergencyUpdate(prev, t) ==
    IF prev.currentPosition = Null THEN prev
    ELSE [ prev EXCEPT
             !.alerts = CapAlerts(<<ManualAlert("alert-emergency", "critical",
                                                prev.currentPosition, t)>> \o prev.alerts),
             !.device = [prev.device EXCEPT !.status = "emergency"] ]

reportBreakdownUpdate(prev, t) ==
    IF prev.currentPosition = Null THEN prev
    ELSE [ prev EXCEPT
             !.alerts = CapAlerts(<<ManualAlert("alert-breakdown", "high",
                                                prev.currentPosition, t)>> \o prev.alerts),
             !.device = [prev.device EXCEPT !.status = "breakdown"] ]

clearEmergencyUpdate(prev) ==
    [ prev EXCEPT !.device = [prev.device EXCEPT !.status = "operational"] ]

startPlaybackUpdate(prev) ==
    [ prev EXCEPT !.isPlaying = TRUE, !.playbackIndex = 0 ]

stopPlaybackUpdate(prev) ==
    [ prev EXCEPT !.isPlaying = FALSE, !.playbackIndex = -1,
                  !.currentPosition = At(prev.trackHistory, Len(prev.trackHistory) - 1) ]

setPlaybackIndexUpdate(prev, index) ==
    LET pos == At(prev.trackHistory, index)
    IN  [ prev EXCEPT !.playbackIndex = index,
                      !.currentPosition = IF pos # Null THEN pos ELSE prev.currentPosition ]

setPlaybackSpeedUpdate(prev, speed) ==
    [ prev EXCEPT !.playbackSpeed = speed ]

\* the callback with the terminal index one too far
playbackTickPastEnd(prev) ==
    LET nextIndex == prev.playbackIndex + 1
    IN  IF nextIndex >= Len(prev.trackHistory)
        THEN [ prev EXCEPT !.isPlaying = FALSE,
                           !.playbackIndex = Len(prev.trackHistory) ]
        ELSE [ prev EXCEPT !.playbackIndex = nextIndex,
                           !.currentPosition = prev.trackHistory[nextIndex + 1] ]

\* the callback of the playback interval
playbackTickUpdate(prev) ==
    LET nextIndex == prev.playbackIndex + 1
    IN  IF nextIndex >= Len(prev.trackHistory)
        THEN [ prev EXCEPT !.isPlaying = FALSE,
                           !.playbackIndex = Len(prev.trackHistory) - 1 ]
        ELSE [ prev EXCEPT !.playbackIndex = nextIndex,
                           !.currentPosition = prev.trackHistory[nextIndex + 1] ]

MarkRead(alertList, alertId) ==
    [ i \in 1 .. Len(alertList) |->
        IF alertList[i].id = alertId THEN [alertList[i] EXCEPT !.isRead = TRUE]
        ELSE alertList[i] ]

dismissAlertUpdate(prev, alertId) ==
    [ prev EXCEPT !.alerts = MarkRead(prev.alerts, alertId) ]

addGeofenceUpdate(prev, geofence, t) ==
    [ prev EXCEPT !.geofences =
        Append(prev.geofences,
               [ id |-> <<"geofence", t>>, center |-> geofence.center,
                 radius |-> geofence.radius, isActive |-> geofence.isActive,
                 alertOnEnter |-> geofence.alertOnEnter,
                 alertOnExit |-> geofence.alertOnExit,
                 zoneType |-> geofence.zoneType ]) ]

----------------------------------------------------------------------------
(* The playback timer: the effect with dependencies [isPlaying, playbackSpeed] *)

\* clearInterval(playbackRef.current) without resetting the ref
ClearTimer(timer) ==
    IF timer.ref = "live" THEN [ref |-> "stale", active |-> timer.active - 1]
    ELSE timer

\* the effect after a commit that took the state from old to new:
\* the previous run's cleanup, then the effect body
PlaybackEffect(old, new, timer) ==
    IF old.isPlaying = new.isPlaying /\ old.playbackSpeed = new.playbackSpeed
    THEN timer
    ELSE LET cleaned == IF timer.ref # "null" THEN ClearTimer(timer) ELSE timer
         IN  IF new.isPlaying /\ new.playbackIndex >= 0
             THEN [ref |-> "live", active |-> cleaned.active + 1]
             ELSE IF cleaned.ref # "null"
                  THEN [ClearTimer(cleaned) EXCEPT !.ref = "null"]
                  ELSE cleaned

Timer == [ref |-> playbackRef, active |-> activeTimers]

\* commit a new state and run the effect
Commit(new, timer) ==
    /\ state' = new
    /\ playbackRef' = PlaybackEffect(state, new, timer).ref
    /\ activeTimers' = PlaybackEffect(state, new, timer).active

\* what a step adds to the observations
Observe(fix, positions, alertsAdded) ==
    /\ received' = received \o fix
    /\ appended' = appended \o positions
    /\ produced' = produced \o alertsAdded
    /\ UNCHANGED <<sb, selectedDeviceId, fed, page, sim, store>>

\* the run observation is kept only by a specification that starts it at Idle
Unobserved == [unobserved |-> TRUE]
Idle == [idle |-> TRUE]
ObserveRun(newRun) == run' = IF run = Unobserved THEN Unobserved ELSE newRun

\* the alerts a step put in front of the list, oldest first
RECURSIVE Reverse(_)
Reverse(s) == IF s = << >> THEN << >> ELSE Append(Reverse(Tail(s)), Head(s))

----------------------------------------------------------------------------
(* Operations *)

Fixes == [lat : {l.lat : l \in Locs}, lng : {l.lng : l \in Locs},
          accuracy : Accuracies, variation : Variations]

FixInputs == { f \in Fixes : [lat |-> f.lat, lng |-> f.lng] \in Locs }

GeofenceTemplates ==
    { [ center |-> [lat |-> 0, lng |-> 0], radius |-> 200, isActive |-> TRUE,
        alertOnEnter |-> TRUE, alertOnExit |-> TRUE, zoneType |-> "restricted" ],
      [ center |-> [lat |-> 0, lng |-> 0], radius |-> 200, isActive |-> FALSE,
        alertOnEnter |-> TRUE, alertOnExit |-> TRUE, zoneType |-> "hazard" ] }

HandlePosition(fix) ==
    LET new      == handlePositionUpdate(state, fix, initialPositionSet, now)
        pos      == NewPosition(state, fix, initialPositionSet, now)
        geofences == IF ~initialPositionSet THEN createMineGeofences(fix.lat, fix.lng)
                     ELSE state.geofences
        added    == Len(NewAlerts(state, geofences, pos, now)) - Len(state.alerts)
    IN  /\ Commit(new, Timer)
        /\ initialPositionSet' = (initialPositionSet \/ ~state.isPlaying)
        /\ now' = now + 1
        /\ Observe(<< [ id |-> now, latitude |-> pos.latitude, longitude |-> pos.longitude,
                        signalStrength |-> pos.signalStrength ] >>,
                   IF state.isPlaying THEN << >> ELSE <<pos>>,
                   IF state.isPlaying THEN << >>
                   ELSE Reverse(SubSeq(NewAlerts(state, geofences, pos, now), 1, added)))
        /\ ObserveRun(Idle)

TriggerEmergency ==
    LET new == triggerEmergencyUpdate(state, now)
    IN  /\ Commit(new, Timer)
        /\ now' = now + 1
        /\ Observe(<< >>, << >>,
                   IF state.currentPosition = Null THEN << >>
                   ELSE <<ManualAlert("alert-emergency", "critical", state.currentPosition, now)>>)
        /\ UNCHANGED initialPositionSet
        /\ ObserveRun(Idle)

ReportBreakdown ==
    LET new == reportBreakdownUpdate(state, now)
    IN  /\ Commit(new, Timer)
        /\ now' = now + 1
        /\ Observe(<< >>, << >>,
                   IF state.currentPosition = Null THEN << >>
                   ELSE <<ManualAlert("alert-breakdown", "high", state.currentPosition, now)>>)
        /\ UNCHANGED initialPositionSet
        /\ ObserveRun(Idle)

ClearEmergency ==
    /\ Commit(clearEmergencyUpdate(state), Timer)
    /\ Observe(<< >>, << >>, << >>)
    /\ UNCHANGED <<initialPositionSet, now>>
    /\ ObserveRun(Idle)

StartPlayback ==
    /\ Commit(startPlaybackUpdate(state), Timer)
    /\ Observe(<< >>, << >>, << >>)
    /\ UNCHANGED <<initialPositionSet, now>>
    /\ ObserveRun([len |-> Len(state.trackHistory), ticks |-> 0])

\* clears the interval through the ref first, then commits
StopPlayback ==
    /\ Commit(stopPlaybackUpdate(state),
              IF playbackRef # "null" THEN [ClearTimer(Timer) EXCEPT !.ref = "null"]
              ELSE Timer)
    /\ Observe(<< >>, << >>, << >>)
    /\ UNCHANGED <<initialPositionSet, now>>
    /\ ObserveRun(Idle)

SetPlaybackIndex(index) ==
    /\ Commit(setPlaybackIndexUpdate(state, index), Timer)
    /\ Observe(<< >>, << >>, << >>)
    /\ UNCHANGED <<initialPositionSet, now>>
    /\ ObserveRun(Idle)

SetPlaybackSpeed(speed) ==
    /\ Commit(setPlaybackSpeedUpdate(state, speed), Timer)
    /\ Observe(<< >>, << >>, << >>)
    /\ UNCHANGED <<initialPositionSet, now>>
    /\ ObserveRun(Idle)

\* the interval fires
PlaybackTick ==
    /\ activeTimers > 0
    /\ Commit(playbackTickUpdate(state), Timer)
    /\ Observe(<< >>, << >>, << >>)
    /\ UNCHANGED <<initialPositionSet, now>>
    /\ ObserveRun(IF run = Idle THEN Idle ELSE [run EXCEPT !.ticks = @ + 1])

DismissAlert(alertId) ==
    /\ Commit(dismissAlertUpdate(state, alertId), Timer)
    /\ Observe(<< >>, << >>, << >>)
    /\ UNCHANGED <<initialPositionSet, now>>
    /\ ObserveRun(Idle)

AddGeofence(geofence) ==
    /\ Commit(addGeofenceUpdate(state, geofence, now), Timer)
    /\ now' = now + 1
    /\ Observe(<< >>, << >>, << >>)
    /\ UNCHANGED initialPositionSet
    /\ ObserveRun(Idle)

----------------------------------------------------------------------------
(* useSupabaseTracking: the handlers of the change feed *)

Devices == { "dev-1", "dev-2" }

InitialFeedState ==
    [ devices               |-> << >>,
      currentDevice         |-> Null,
      currentPosition       |-> Null,
      trackHistory          |-> << >>,
      allDevicePositions    |-> [d \in Devices |-> Null],
      allDeviceTrackHistory |-> [d \in Devices |-> << >>],
      alerts                |-> << >>,
      isSimulating          |-> FALSE ]

\* a tracking_positions row as a GPSPosition; an empty zone becomes 'Unknown'
toGPSPosition(pos) ==
    [ id |-> pos.id, latitude |-> pos.latitude, longitude |-> pos.longitude,
      depth |-> pos.depth,
      zone |-> IF pos.zone # "" THEN pos.zone ELSE "Unknown",
      signalStrength |-> pos.signal_strength ]

\* a tracking_alerts row as an Alert; the location only if latitude and longitude are truthy
toAlert(dbAlert) ==
    [ id |-> dbAlert.id, type |-> dbAlert.type, isRead |-> dbAlert.is_read,
      geofenceId |-> << >>, priority |-> dbAlert.priority,
      location |-> IF dbAlert.latitude # 0 /\ dbAlert.longitude # 0
                   THEN [lat |-> dbAlert.latitude, lng |-> dbAlert.longitude,
                         depth |-> dbAlert.depth]
                   ELSE Null ]

\* the INSERT handler of tracking_positions
positionInsertUpdate(prev, selected, newPosition) ==
    LET gpsPosition   == toGPSPosition(newPosition)
        deviceHistory == prev.allDeviceTrackHistory[newPosition.device_id]
        all == [ prev EXCEPT
                   !.allDevicePositions[newPosition.device_id] = gpsPosition,
                   !.allDeviceTrackHistory[newPosition.device_id] =
                       NewHistory(deviceHistory, gpsPosition) ]
    IN  IF selected = "" \/ newPosition.device_id = selected
        THEN [ all EXCEPT !.currentPosition = gpsPosition,
                          !.trackHistory = NewHistory(prev.trackHistory, gpsPosition) ]
        ELSE all

\* the INSERT handler of tracking_alerts
alertInsertUpdate(prev, newAlert) ==
    [ prev EXCEPT !.alerts = CapAlerts(<<toAlert(newAlert)>> \o prev.alerts) ]

\* dismissAlert of useSupabaseTracking, after the store update
feedDismissAlertUpdate(prev, alertId) ==
    [ prev EXCEPT !.alerts = MarkRead(prev.alerts, alertId) ]

TrackingUnchanged ==
    UNCHANGED <<state, playbackRef, activeTimers, initialPositionSet,
                received, appended, produced, run, selectedDeviceId, page, sim, store>>

PositionInsert(row) ==
    /\ sb' = positionInsertUpdate(sb, selectedDeviceId, row)
    /\ fed' = [fed EXCEPT !.positions = Append(@, row)]
    /\ now' = now + 1
    /\ TrackingUnchanged

AlertInsert(row) ==
    /\ sb' = alertInsertUpdate(sb, row)
    /\ fed' = [fed EXCEPT !.alerts = Append(@, row)]
    /\ now' = now + 1
    /\ TrackingUnchanged

FeedDismissAlert(alertId) ==
    /\ sb' = feedDismissAlertUpdate(sb, alertId)
    /\ UNCHANGED <<fed, now>>
    /\ TrackingUnchanged

----------------------------------------------------------------------------
(* Index page: playback over the trackHistory of useSupabaseTracking.        *)
(* playbackSpeed is kept in halves (the options 0.5, 1, 2, 4 are 1, 2, 4, 8). *)

PageSpeeds == { 1, 2, 4, 8 }

InitialPage ==
    [ isPlaying |-> FALSE, playbackIndex |-> -1, playbackSpeed |-> 2,
      simulationEnabled |-> FALSE ]

\* the playback effect on a render without a position: the cursor is set to 0
pagePlaybackEffect(p, len) ==
    IF p.isPlaying /\ len > 0 /\ p.playbackIndex < 0 THEN [p EXCEPT !.playbackIndex = 0]
    ELSE p

handleTogglePlayUpdate(p, len) ==
    LET started == IF ~p.isPlaying /\ p.playbackIndex < 0 /\ len > 0
                   THEN [p EXCEPT !.playbackIndex = 0] ELSE p
    IN  pagePlaybackEffect([started EXCEPT !.isPlaying = ~p.isPlaying], len)

handleStopUpdate(p) == [p EXCEPT !.isPlaying = FALSE, !.playbackIndex = -1]

handleSkipBackUpdate(p, len) ==
    IF len = 0 THEN p
    ELSE [p EXCEPT !.playbackIndex = Max(0, p.playbackIndex - 1), !.isPlaying = FALSE]

handleSkipForwardUpdate(p, len) ==
    IF len = 0 THEN p
    ELSE [p EXCEPT !.playbackIndex = Min(len - 1, p.playbackIndex + 1), !.isPlaying = FALSE]

\* the interval callback: next = prev + playbackSpeed, floored
pageTickUpdate(p, len) ==
    LET next2 == 2 * p.playbackIndex + p.playbackSpeed
    IN  IF next2 >= 2 * len
        THEN [p EXCEPT !.isPlaying = FALSE, !.playbackIndex = len - 1]
        ELSE [p EXCEPT !.playbackIndex = next2 \div 2]

\* what a page handler leaves alone
PageFrame ==
    UNCHANGED <<state, playbackRef, activeTimers, initialPositionSet, now,
                received, appended, produced, run, sb, selectedDeviceId, fed, sim, store>>

\* the buttons are disabled while trackHistory is empty
HandleTogglePlay ==
    /\ Len(sb.trackHistory) > 0
    /\ page' = handleTogglePlayUpdate(page, Len(sb.trackHistory))
    /\ PageFrame

HandleStop ==
    /\ Len(sb.trackHistory) > 0
    /\ page' = handleStopUpdate(page)
    /\ PageFrame

HandleSkipBack ==
    /\ Len(sb.trackHistory) > 0 /\ page.playbackIndex > 0
    /\ page' = handleSkipBackUpdate(page, Len(sb.trackHistory))
    /\ PageFrame

HandleSkipForward ==
    /\ Len(sb.trackHistory) > 0 /\ page.playbackIndex < Len(sb.trackHistory) - 1
    /\ page' = handleSkipForwardUpdate(page, Len(sb.trackHistory))
    /\ PageFrame

PageSetPlaybackSpeed(speed) ==
    /\ page' = [page EXCEPT !.playbackSpeed = speed]
    /\ PageFrame

\* the interval exists while playing on a history that is not empty with a cursor
PageTick ==
    /\ page.isPlaying /\ Len(sb.trackHistory) > 0 /\ page.playbackIndex >= 0
    /\ page' = pageTickUpdate(page, Len(sb.trackHistory))
    /\ PageFrame

----------------------------------------------------------------------------
(* useSupabaseTracking: the device motion simulator and the persisted store *)

\* the tracking_devices table as fetchInitialData reads it, ordered by name
Fleet ==
    << [id |-> "dev-1", type |-> "drill", drillName |-> TRUE,  status |-> "operational"],
       [id |-> "dev-2", type |-> "truck", drillName |-> FALSE, status |-> "operational"] >>

\* nodes of the mine layout: position.x, position.y, position.z
Node(nodeId) ==
    CASE nodeId = "surf_entry" -> [x |-> 0,    y |-> 0,    z |-> 0]
      [] nodeId = "shaft_l1"   -> [x |-> 0,    y |-> -50,  z |-> 0]
      [] nodeId = "shaft_l2"   -> [x |-> 0,    y |-> -150, z |-> 0]
      [] nodeId = "shaft_l3"   -> [x |-> 0,    y |-> -250, z |-> 0]
      [] nodeId = "l1_n1"      -> [x |-> 50,   y |-> -50,  z |-> 20]
      [] nodeId = "l1_n2"      -> [x |-> 100,  y |-> -50,  z |-> 40]
      [] nodeId = "l1_n3"      -> [x |-> -60,  y |-> -50,  z |-> 10]
      [] nodeId = "l1_n4"      -> [x |-> -120, y |-> -50,  z |-> -30]
      [] nodeId = "l1_loop_1"  -> [x |-> 40,   y |-> -50,  z |-> -40]
      [] nodeId = "l1_loop_2"  -> [x |-> -20,  y |-> -50,  z |-> -50]
      [] nodeId = "l2_n1"      -> [x |-> 20,   y |-> -150, z |-> 80]
      [] nodeId = "l2_n2"      -> [x |-> 40,   y |-> -150, z |-> 150]
      [] nodeId = "l2_n3"      -> [x |-> -30,  y |-> -150, z |-> 60]
      [] nodeId = "l2_n4"      -> [x |-> -80,  y |-> -150, z |-> 90]
      [] nodeId = "l2_cross_1" -> [x |-> 100,  y |-> -150, z |-> 0]
      [] nodeId = "l2_cross_2" -> [x |-> 120,  y |-> -150, z |-> -100]
      [] nodeId = "l3_n1"      -> [x |-> -40,  y |-> -250, z |-> -40]
      [] nodeId = "l3_n2"      -> [x |-> -100, y |-> -260, z |-> -80]
      [] nodeId = "l3_n3"      -> [x |-> 60,   y |-> -250, z |-> -20]
      [] nodeId = "l3_n4"      -> [x |-> 150,  y |-> -280, z |-> -50]

Route(pathType) ==
    CASE pathType = "path1" ->
           << "surf_entry", "shaft_l1", "l1_n1", "l1_n2", "l1_n1", "shaft_l1",
              "shaft_l2", "l2_n1", "l2_n2", "l2_n1", "l2_cross_1", "l2_cross_2",
              "l2_cross_1", "shaft_l2", "shaft_l3", "l3_n1", "l3_n2", "l3_n1",
              "l3_n3", "l3_n4", "l3_n3", "shaft_l3", "shaft_l2", "shaft_l1", "surf_entry" >>
      [] pathType = "path2" ->
           << "surf_entry", "shaft_l1", "l1_n3", "l1_n4", "l1_n3", "l1_loop_1",
              "l1_loop_2", "shaft_l1", "shaft_l2", "l2_n3", "l2_n4", "l2_n3",
              "shaft_l2", "shaft_l1", "surf_entry" >>
      [] OTHER ->
           << "surf_entry", "shaft_l1", "shaft_l2", "shaft_l3", "l3_n3", "l3_n4",
              "l3_n3", "l3_n1", "l3_n2", "l3_n1", "shaft_l3", "shaft_l2",
              "l2_cross_1", "l2_cross_2", "l2_cross_1", "shaft_l2", "shaft_l1", "surf_entry" >>

\* the points of a path: metres north and east of the centre reference, depth
createTunnelPath(pathType) ==
    LET route == Route(pathType)
    IN  [ i \in 1 .. Len(route) |->
            [ nodeId |-> route[i], lat |-> -Node(route[i]).z, lng |-> Node(route[i]).x,
              depth |-> -Node(route[i]).y ] ]

Refs == 1 .. Cardinality(Devices)

\* simulationState maps a device to the progress record it owns (0: none);
\* heap holds the records
InitialSim ==
    [ simulationRef   |-> "null",
      timers          |-> 0,
      simulationState |-> [d \in Devices |-> 0],
      heap            |-> [r \in Refs |-> Null],
      runs            |-> << >> ]

\* rows written and not yet delivered by the change feed; written counts the
\* position rows
InitialStore ==
    [ positions |-> << >>, alerts |-> << >>, devices |-> << >>, written |-> 0,
      alarms |-> 0, foreign |-> 0,
      status |-> [d \in Devices |-> "operational"] ]

IsDrill(d) == d.type = "drill" \/ d.drillName

IsOther(d) == ~IsDrill(d)

devicesToSimulate(devices) ==
    LET drillDevices == SliceFirst(SelectSeq(devices, IsDrill), 3)
    IN  IF Len(drillDevices) >= 2 THEN drillDevices
        ELSE IF Len(drillDevices) = 1 /\ Len(devices) >= 2
             THEN SliceFirst(drillDevices \o SliceFirst(SelectSeq(devices, IsOther), 2), 3)
             ELSE SliceFirst(devices, Min(3, Len(devices)))

devicePaths(devices) ==
    LET chosen == devicesToSimulate(devices)
    IN  [ i \in 1 .. Len(chosen) |->
            [ deviceId |-> chosen[i].id,
              pathType |-> IF i = 1 THEN "path1" ELSE IF i = 2 THEN "path2" ELSE "path3" ] ]

\* one record for every device
FirstRef(sm) == 1

\* a record no device owns
FreshRef(sm) ==
    CHOOSE r \in Refs :
        /\ \A d \in Devices : sm.simulationState[d] # r
        /\ \A q \in Refs : (\A d \in Devices : sm.simulationState[d] # q) => r <= q

\* simulationStateRef.current.set(deviceId, { pathIndex: 0, progress: 0 }) for
\* the devices that have no record
RECURSIVE InitTrackers(_, _, _)
InitTrackers(sm, paths, i) ==
    IF i > Len(paths) THEN sm
    ELSE LET d == paths[i].deviceId
         IN  IF sm.simulationState[d] # 0 THEN InitTrackers(sm, paths, i + 1)
             ELSE LET r == FreshRef(sm)
                  IN  InitTrackers([sm EXCEPT !.simulationState[d] = r,
                                              !.heap[r] = [pathIndex |-> 0, progress |-> 0]],
                                   paths, i + 1)

zoneOfDepth(depth) ==
    IF depth > 200 THEN "Level 3 - Deep Extraction"
    ELSE IF depth > 100 THEN "Level 2 - Production"
    ELSE IF depth > 30 THEN "Level 1 - Logistics"
    ELSE IF depth > 0 THEN "Main Shaft"
    ELSE "Surface"

Jitters == { 0, 4 }

\* Math.round(Math.max(5, 100 - depth / 3 - jitter))
simulatedSignal(depth, jitter) == Max(SignalFloor, RoundDiv(3 * (100 - jitter) - depth, 3))

Interpolate(from, to, progress) == from + ((to - from) * progress) \div StepsPerSegment

\* dx * dx + dy * dy + dz * dz of the segment between two points of a path
segmentLength2(currentPoint, nextPoint) ==
    (nextPoint.lng - currentPoint.lng) * (nextPoint.lng - currentPoint.lng)
      + (nextPoint.depth - currentPoint.depth) * (nextPoint.depth - currentPoint.depth)
      + (nextPoint.lat - currentPoint.lat) * (nextPoint.lat - currentPoint.lat)

\* the next node reached with the progress kept
afterMoveKeepsProgress(st, len, progress, reached) ==
    IF reached THEN [pathIndex |-> (st.pathIndex + 1) % len, progress |-> progress]
    ELSE [st EXCEPT !.progress = progress]

\* state.progress and state.pathIndex after the move
afterMove(st, len, progress, reached) ==
    IF reached THEN [pathIndex |-> (st.pathIndex + 1) % len, progress |-> 0]
    ELSE [st EXCEPT !.progress = progress]

\* one turn along a path from the record st: the record after it and the row
\* of the position reached; on a segment of length 0 moveProgress is Infinity
\* and the next node is reached at once
moveOnPath(path, st, deviceId, jitter) ==
    LET currentPoint == path[st.pathIndex + 1]
        nextPoint    == path[((st.pathIndex + 1) % Len(path)) + 1]
        progress     == st.progress + 1
        reached      == \/ segmentLength2(currentPoint, nextPoint) = 0
                        \/ progress >= StepsPerSegment
        after        == afterMove(st, Len(path), progress, reached)
        targetPoint  == path[after.pathIndex + 1]
        lat   == IF reached THEN targetPoint.lat
                 ELSE Interpolate(currentPoint.lat, nextPoint.lat, progress)
        lng   == IF reached THEN targetPoint.lng
                 ELSE Interpolate(currentPoint.lng, nextPoint.lng, progress)
        depth == IF reached THEN targetPoint.depth
                 ELSE Interpolate(currentPoint.depth, nextPoint.depth, progress)
    IN  [ after |-> after,
          row   |-> [ device_id |-> deviceId, latitude |-> lat, longitude |-> lng,
                      depth |-> depth, zone |-> zoneOfDepth(depth),
                      signal_strength |-> simulatedSignal(depth, jitter) ] ]

\* the record r replaced by the record after the move, and the row it wrote
recordMove(sm, r, moved) ==
    [ sim |-> [sm EXCEPT !.heap[r] = moved.after], rows |-> << moved.row >> ]

\* one device's turn in simulatePosition: the record after it and the row it
\* writes; nothing for a device without a record
simulateDevice(sm, dp, jitter) ==
    LET r == sm.simulationState[dp.deviceId]
    IN  IF r = 0 THEN [sim |-> sm, rows |-> << >>]
        ELSE recordMove(sm, r, moveOnPath(createTunnelPath(dp.pathType), sm.heap[r],
                                         dp.deviceId, jitter))

PositionRow(t, device, zone) ==
    [ id |-> t, device_id |-> device, latitude |-> 0, longitude |-> 0, depth |-> 35,
      zone |-> zone, signal_strength |-> 20 ]

AlertRow(t, device, latitude) ==
    [ id |-> t, type |-> "speeding", is_read |-> FALSE, device_id |-> device,
      priority |-> "medium", latitude |-> latitude, longitude |-> 5, depth |-> 35 ]

toDevice(dev) == [id |-> dev.id, status |-> dev.status]

\* the tracking_devices row of a device as the store holds it
DeviceRow(st, deviceId) ==
    LET i == CHOOSE j \in 1 .. Len(Fleet) : Fleet[j].id = deviceId
    IN  [Fleet[i] EXCEPT !.status = st.status[deviceId]]

\* the i-th device's turn of one simulatePosition call: its record moves, the
\* row is inserted (ok: the insert succeeds) and the device row is updated
simulateTurn(sm, st, paths, i, ok, jitter) ==
    LET res == simulateDevice(sm, paths[i], jitter)
    IN  IF res.rows = << >> THEN [sim |-> sm, store |-> st]
        ELSE [ sim   |-> res.sim,
               store |-> [ st EXCEPT
                             !.written   = @ + 1,
                             !.positions = IF ok THEN Append(@, [id |-> st.written + 1] @@ res.rows[1])
                                           ELSE @,
                             !.devices   = Append(@, DeviceRow(st, paths[i].deviceId)) ] ]

\* a simulatePosition call begins: the first device has its turn at once, the
\* others after the awaits
simulatePosition(sm, st, paths, ok, jitter) ==
    LET first == simulateTurn(sm, st, paths, 1, ok, jitter)
    IN  [ sim   |-> IF Len(paths) >= 2 THEN [first.sim EXCEPT !.runs = Append(@, 2)]
                    ELSE first.sim,
          store |-> first.store ]

startSimulation(sbv, sm, st, ok, jitter) ==
    IF Len(sbv.devices) = 0 THEN [sb |-> sbv, sim |-> sm, store |-> st]
    ELSE LET paths   == devicePaths(sbv.devices)
             tracked == InitTrackers(sm, paths, 1)
             timed   == [tracked EXCEPT !.simulationRef = "live", !.timers = @ + 1]
             called  == simulatePosition(timed, st, paths, ok, jitter)
         IN  [ sb |-> [sbv EXCEPT !.isSimulating = TRUE], sim |-> called.sim,
               store |-> called.store ]

\* the interval cleared, the progress records kept
stopSimulationKeepsProgress(sbv, sm, st) ==
    [ sb    |-> [sbv EXCEPT !.isSimulating = FALSE],
      sim   |-> [ sm EXCEPT
                    !.timers        = IF sm.simulationRef = "live" THEN @ - 1 ELSE @,
                    !.simulationRef = "null" ],
      store |-> st ]

stopSimulation(sbv, sm, st) ==
    [ sb    |-> [sbv EXCEPT !.isSimulating = FALSE],
      sim   |-> [ sm EXCEPT
                    !.timers          = IF sm.simulationRef = "live" THEN @ - 1 ELSE @,
                    !.simulationRef   = "null",
                    !.simulationState = [d \in Devices |-> 0],
                    !.heap            = [r \in Refs |-> Null] ],
      store |-> st ]

\* the effect on [simulationMode, currentDevice, startSimulation, stopSimulation]:
\* its cleanup, then its body
simulationEffect(sbv, sm, st, simulationMode, ok, jitter) ==
    LET cleaned == stopSimulation(sbv, sm, st)
    IN  IF simulationMode /\ cleaned.sb.currentDevice # Null
        THEN startSimulation(cleaned.sb, cleaned.sim, cleaned.store, ok, jitter)
        ELSE stopSimulation(cleaned.sb, cleaned.sim, cleaned.store)

\* what the handlers of useSupabaseTracking leave alone
HookFrame ==
    UNCHANGED <<state, playbackRef, activeTimers, initialPositionSet, now,
                received, appended, produced, run, selectedDeviceId>>

SetHook(new) ==
    /\ sb' = new.sb
    /\ sim' = new.sim
    /\ store' = new.store
    /\ HookFrame

CanWrite == store.written < MaxSimRows

\* fetchInitialData on mount, the tables of positions and alerts empty
FetchInitialData(ok, jitter) ==
    /\ sb.devices = << >>
    /\ CanWrite
    /\ LET chosen == IF selectedDeviceId = "" THEN 1
                     ELSE CHOOSE j \in 1 .. Len(Fleet) : Fleet[j].id = selectedDeviceId
           loaded == [sb EXCEPT !.devices = Fleet, !.currentDevice = toDevice(Fleet[chosen])]
       IN  SetHook(simulationEffect(loaded, sim, store, page.simulationEnabled, ok, jitter))
    /\ UNCHANGED <<fed, page>>

HandleToggleSimulation(ok, jitter) ==
    /\ CanWrite
    /\ page' = [page EXCEPT !.simulationEnabled = ~@]
    /\ SetHook(simulationEffect(sb, sim, store, ~page.simulationEnabled, ok, jitter))
    /\ UNCHANGED fed

StartSimulation(ok, jitter) ==
    /\ CanWrite
    /\ sim.timers < MaxSimRuns
    /\ SetHook(startSimulation(sb, sim, store, ok, jitter))
    /\ UNCHANGED <<fed, page>>

StopSimulation ==
    /\ SetHook(stopSimulation(sb, sim, store))
    /\ UNCHANGED <<fed, page>>

\* a running interval fires
SimulationTimer(ok, jitter) ==
    /\ sim.timers > 0
    /\ CanWrite
    /\ Len(sim.runs) < MaxSimRuns
    /\ SetHook([sb |-> sb] @@ simulatePosition(sim, store, devicePaths(sb.devices), ok, jitter))
    /\ UNCHANGED <<fed, page>>

\* a simulatePosition call in flight resumes with its next device
SimulationResume(k, ok, jitter) ==
    /\ k \in 1 .. Len(sim.runs)
    /\ CanWrite
    /\ LET paths  == devicePaths(sb.devices)
           i      == sim.runs[k]
           turned == simulateTurn(sim, store, paths, i, ok, jitter)
           rest   == [j \in 1 .. Len(sim.runs) - 1 |->
                        IF j < k THEN sim.runs[j] ELSE sim.runs[j + 1]]
       IN  SetHook([ sb    |-> sb,
                     sim   |-> [turned.sim EXCEPT
                                  !.runs = IF i < Len(paths) THEN [sim.runs EXCEPT ![k] = i + 1]
                                           ELSE rest],
                     store |-> turned.store ])
    /\ UNCHANGED <<fed, page>>

\* triggerEmergency / reportBreakdown of useSupabaseTracking: the alert row is
\* inserted (ok: the insert succeeds), then the device row is updated
manualAlarmStore(sbv, st, type, priority, status, ok) ==
    IF sbv.currentDevice = Null \/ sbv.currentPosition = Null THEN st
    ELSE LET d   == sbv.currentDevice.id
             row == [ id |-> st.alarms + 1, type |-> type, is_read |-> FALSE,
                      device_id |-> d, priority |-> priority,
                      latitude |-> sbv.currentPosition.latitude,
                      longitude |-> sbv.currentPosition.longitude,
                      depth |-> sbv.currentPosition.depth ]
             set == [st EXCEPT !.status[d] = status]
         IN  [ set EXCEPT !.alarms  = @ + 1,
                          !.alerts  = IF ok THEN Append(@, row) ELSE @,
                          !.devices = Append(@, DeviceRow(set, d)) ]

FeedTriggerEmergency(ok) ==
    /\ store.alarms < MaxAlarmRows
    /\ store' = manualAlarmStore(sb, store, "emergency", "critical", "emergency", ok)
    /\ UNCHANGED <<sb, sim, fed, page>>
    /\ HookFrame

FeedReportBreakdown(ok) ==
    /\ store.alarms < MaxAlarmRows
    /\ store' = manualAlarmStore(sb, store, "breakdown", "high", "breakdown", ok)
    /\ UNCHANGED <<sb, sim, fed, page>>
    /\ HookFrame

\* the change feed delivers an inserted position row
DeliverPosition ==
    /\ store.positions # << >>
    /\ sb' = positionInsertUpdate(sb, selectedDeviceId, Head(store.positions))
    /\ fed' = [fed EXCEPT !.positions = Append(@, Head(store.positions))]
    /\ store' = [store EXCEPT !.positions = Tail(@)]
    /\ UNCHANGED <<sim, page>>
    /\ HookFrame

\* the change feed delivers an inserted alert row
DeliverAlert ==
    /\ store.alerts # << >>
    /\ sb' = alertInsertUpdate(sb, Head(store.alerts))
    /\ fed' = [fed EXCEPT !.alerts = Append(@, Head(store.alerts))]
    /\ store' = [store EXCEPT !.alerts = Tail(@)]
    /\ UNCHANGED <<sim, page>>
    /\ HookFrame

\* the UPDATE handler of tracking_devices
deviceUpdate(prev, selected, updatedDevice) ==
    LET mapped == [ prev EXCEPT
                      !.devices = [i \in 1 .. Len(prev.devices) |->
                                     IF prev.devices[i].id = updatedDevice.id THEN updatedDevice
                                     ELSE prev.devices[i]] ]
    IN  IF selected = updatedDevice.id
           \/ (prev.currentDevice # Null /\ prev.currentDevice.id = updatedDevice.id)
        THEN [mapped EXCEPT !.currentDevice = toDevice(updatedDevice)]
        ELSE mapped

\* the change feed delivers an updated device row; devices is a new array, so
\* startSimulation is a new callback and the simulation effect runs again
DeliverDeviceUpdate(ok, jitter) ==
    /\ store.devices # << >>
    /\ CanWrite
    /\ LET updated == deviceUpdate(sb, selectedDeviceId, Head(store.devices))
           popped  == [store EXCEPT !.devices = Tail(@)]
       IN  SetHook(simulationEffect(updated, sim, popped, page.simulationEnabled, ok, jitter))
    /\ UNCHANGED <<fed, page>>

\* a row of another writer, without a zone, arrives by the change feed
ForeignSignals == { 20, 10 }

ForeignRow(device, signal) ==
    [PositionRow(0 - now, device, "") EXCEPT !.signal_strength = signal]

ForeignPosition(device, signal) ==
    /\ store.foreign < MaxForeignRows
    /\ sb' = positionInsertUpdate(sb, selectedDeviceId, ForeignRow(device, signal))
    /\ fed' = [fed EXCEPT !.positions = Append(@, ForeignRow(device, signal))]
    /\ store' = [store EXCEPT !.foreign = @ + 1]
    /\ UNCHANGED <<sim, page>>
    /\ HookFrame

----------------------------------------------------------------------------
(* The hook under position events and every control, within MaxClock clock readings *)

Init ==
    /\ state = InitialState
    /\ playbackRef = "null"
    /\ activeTimers = 0
    /\ initialPositionSet = FALSE
    /\ now = 1
    /\ received = << >>
    /\ appended = << >>
    /\ produced = << >>
    /\ run = Unobserved
    /\ sb = InitialFeedState
    /\ selectedDeviceId = ""
    /\ fed = [positions |-> << >>, alerts |-> << >>]
    /\ page = InitialPage
    /\ sim = InitialSim
    /\ store = InitialStore

AlertIds == { state.alerts[i].id : i \in 1 .. Len(state.alerts) } \cup { <<"alert", 0>> }

Next ==
    \/ \E fix \in FixInputs : now <= MaxClock /\ HandlePosition(fix)
    \/ now <= MaxClock /\ TriggerEmergency
    \/ now <= MaxClock /\ ReportBreakdown
    \/ ClearEmergency
    \/ StartPlayback
    \/ StopPlayback
    \/ \E index \in SeekIndexes : SetPlaybackIndex(index)
    \/ \E speed \in Speeds : SetPlaybackSpeed(speed)
    \/ PlaybackTick
    \/ \E alertId \in AlertIds : DismissAlert(alertId)
    \/ \E geofence \in GeofenceTemplates : now <= MaxClock /\ AddGeofence(geofence)

Spec == Init /\ [][Next]_vars

----------------------------------------------------------------------------
(* Properties of the hook under Spec *)

Last(s) == s[Len(s)]

\* the fences the hook holds with a given id
FencesWithId(id) ==
    { state.geofences[g] : g \in { h \in 1 .. Len(state.geofences) : state.geofences[h].id = id } }

\* C1: two geofence-enter alerts for one geofence are recorded only if some
\* fix received between the two alerting fixes lay outside that geofence
C1_NoDuplicateEnter ==
    \A i, j \in 1 .. Len(produced) :
        ( /\ i < j
          /\ produced[i].type = "geofence_enter"
          /\ produced[j].type = "geofence_enter"
          /\ produced[i].geofenceId = produced[j].geofenceId )
        => \A fence \in FencesWithId(produced[i].geofenceId) :
             \E k \in 1 .. Len(received) :
                /\ produced[i].id[2] < received[k].id
                /\ received[k].id < produced[j].id[2]
                /\ ~Inside(fence, received[k])

\* C2: while playing, the cursor is an index of the history
C2_PlayingCursorInRange ==
    state.isPlaying =>
        (state.playbackIndex >= 0 /\ state.playbackIndex < Len(state.trackHistory))

\* C3: at a cursor that is not the last index, the position exposed is history[cursor]
C3_CursorPositionExposed ==
    (state.playbackIndex >= 0 /\ state.playbackIndex < Len(state.trackHistory) - 1)
        => state.currentPosition = state.trackHistory[state.playbackIndex + 1]

\* C4: a fix received while playing is put at the tail of the history and
\* leaves the exposed current position as it was
C4_IngestWhilePlaying ==
    [][ (state.isPlaying /\ Len(received') > Len(received))
          => /\ Len(state'.trackHistory) > 0
             /\ Last(state'.trackHistory).id = Last(received').id
             /\ state'.currentPosition = state.currentPosition ]_vars

\* the alerts the step recorded, in the order they were recorded
AddedAlerts == SubSeq(produced', Len(produced) + 1, Len(produced'))

CountAdded(type, geofenceId) ==
    Cardinality({ i \in 1 .. Len(AddedAlerts) :
                    AddedAlerts[i].type = type /\ AddedAlerts[i].geofenceId = geofenceId })

\* C8: a position event records a signal-lost alert (priority high) exactly
\* when the previous reading was >= 20 and the new reading is < 20; the first
\* reading records none
C8_SignalLostOnFallingEdge ==
    [][ Len(received') > Len(received)
          => /\ CountAdded("signal_lost", << >>) =
                  IF /\ Len(received) > 0
                     /\ Last(received).signalStrength >= 20
                     /\ Last(received').signalStrength < 20
                  THEN 1 ELSE 0
             /\ \A i \in 1 .. Len(AddedAlerts) :
                  AddedAlerts[i].type = "signal_lost" => AddedAlerts[i].priority = "high"
      ]_vars

\* what the rule table asks of one fence at a fix, given the device's previous fix
RuleTable(fence, hasPrevious, previous, new) ==
    LET applies   == fence.isActive /\ hasPrevious
        wasInside == applies /\ Inside(fence, previous)
        isInside  == Inside(fence, new)
        exits     == applies /\ wasInside /\ ~isInside /\ fence.alertOnExit
        enters    == applies /\ ~wasInside /\ isInside /\ fence.alertOnEnter
    IN  /\ CountAdded("geofence_exit", fence.id) = IF exits THEN 1 ELSE 0
        /\ CountAdded("geofence_enter", fence.id) = IF enters THEN 1 ELSE 0
        /\ \A i \in 1 .. Len(AddedAlerts) :
             AddedAlerts[i].geofenceId = fence.id =>
               /\ AddedAlerts[i].type = "geofence_exit" =>
                    AddedAlerts[i].priority = IF fence.zoneType = "safe" THEN "high" ELSE "medium"
               /\ AddedAlerts[i].type = "geofence_enter" =>
                    AddedAlerts[i].priority = IF fence.zoneType = "hazard" THEN "critical" ELSE "low"

\* C9: at every fix the alerts recorded for each fence are those of the rule
\* table applied to the device's previous fix and the new one
C9_GeofenceRuleTable ==
    [][ Len(received') > Len(received)
          => \A g \in 1 .. Len(state'.geofences) :
               RuleTable(state'.geofences[g], Len(received) > 0,
                         IF Len(received) > 0 THEN Last(received) ELSE Last(received'),
                         Last(received'))
      ]_vars

\* C10: dismissing an id twice is dismissing it once; dismissing an id of the
\* list marks exactly one alert read and changes no other; dismissing an
\* unknown id changes nothing
C10_DismissIdempotentExactlyOne ==
    \A alertId \in AlertIds :
        LET once  == dismissAlertUpdate(state, alertId)
            twice == dismissAlertUpdate(once, alertId)
            hit   == { i \in 1 .. Len(state.alerts) : state.alerts[i].id = alertId }
        IN  /\ twice = once
            /\ hit = {} => once = state
            /\ hit # {} =>
                 /\ Cardinality({ i \in 1 .. Len(once.alerts) :
                                    once.alerts[i].id = alertId /\ once.alerts[i].isRead }) = 1
                 /\ \A i \in 1 .. Len(once.alerts) :
                      once.alerts[i].id # alertId => once.alerts[i] = state.alerts[i]
                 /\ once = [state EXCEPT !.alerts = once.alerts]

----------------------------------------------------------------------------
(* Playback runs: the hook under fixes at one place and every playback       *)
(* control, with the run since the last startPlayback observed               *)

PlaybackFixes == { f \in FixInputs : f.lat = 0 /\ f.lng = 0 }

InitPlayback ==
    /\ state = InitialState
    /\ playbackRef = "null"
    /\ activeTimers = 0
    /\ initialPositionSet = FALSE
    /\ now = 1
    /\ received = << >>
    /\ appended = << >>
    /\ produced = << >>
    /\ run = Idle
    /\ sb = InitialFeedState
    /\ selectedDeviceId = ""
    /\ fed = [positions |-> << >>, alerts |-> << >>]
    /\ page = InitialPage
    /\ sim = InitialSim
    /\ store = InitialStore

NextPlayback ==
    \/ \E fix \in PlaybackFixes : now <= MaxPlaybackFixes /\ HandlePosition(fix)
    \/ StartPlayback
    \/ StopPlayback
    \/ \E index \in SeekIndexes : SetPlaybackIndex(index)
    \/ \E speed \in Speeds : SetPlaybackSpeed(speed)
    \/ PlaybackTick

SpecPlayback == InitPlayback /\ [][NextPlayback]_vars

\* a run of ticks only, since a startPlayback on a history that was not empty
InRun == run # Idle /\ run # Unobserved /\ run.len >= 1

\* C7: after startPlayback on a history of length L >= 1, each tick moves the
\* cursor by one while fewer than L ticks have fired; from the L-th tick on the
\* cursor is L-1, playing is false and a further tick changes nothing
C7_PlaybackTerminates ==
    InRun =>
        /\ Len(state.trackHistory) = run.len
        /\ run.ticks < run.len =>
             (state.isPlaying /\ state.playbackIndex = run.ticks)
        /\ run.ticks >= run.len =>
             /\ state.playbackIndex = run.len - 1
             /\ ~state.isPlaying
             /\ playbackTickUpdate(state) = state

C7_Witness ==
    InRun /\ run.len = MaxPlaybackFixes /\ run.ticks = run.len /\ ~state.isPlaying

----------------------------------------------------------------------------
(* Long runs: both hooks are first driven to the edge of their capacities by  *)
(* a fixed sequence of events (fixes, then position rows, then alert rows),   *)
(* and then take MaxLongExtra further events of any kind. The events of one   *)
(* run arrive within the first period of the playback timer, so playback is   *)
(* started and stopped but its timer does not fire here; Spec and            *)
(* SpecPlayback explore the timer.                                            *)

HistoryCap == HistoryKeep + 1

WarmFixes  == HistoryCap
WarmRows   == WarmFixes + HistoryCap
WarmAlerts == WarmRows + AlertCap

\* the t-th fix of the warm-up: between the origin and the hazard fence, the
\* signal falling every third fix
FillerFix(t) ==
    [ lat |-> IF t % 2 = 1 THEN 0 ELSE -111, lng |-> IF t % 2 = 1 THEN 0 ELSE -211,
      accuracy |-> 70, variation |-> IF t % 3 = 0 THEN 20 ELSE 0 ]

InitLong ==
    /\ state = InitialState
    /\ playbackRef = "null"
    /\ activeTimers = 0
    /\ initialPositionSet = FALSE
    /\ now = 1
    /\ received = << >>
    /\ appended = << >>
    /\ produced = << >>
    /\ run = Unobserved
    /\ sb = InitialFeedState
    /\ selectedDeviceId \in { "", "dev-1" }
    /\ fed = [positions |-> << >>, alerts |-> << >>]
    /\ page = InitialPage
    /\ sim = InitialSim
    /\ store = InitialStore

Free == now > WarmAlerts /\ now <= WarmAlerts + MaxLongExtra

NextLong ==
    \/ now <= WarmFixes /\ HandlePosition(FillerFix(now))
    \/ now > WarmFixes /\ now <= WarmRows /\ PositionInsert(PositionRow(now, "dev-1", "Surface"))
    \/ now > WarmRows /\ now <= WarmAlerts /\ AlertInsert(AlertRow(now, "dev-1", 5))
    \/ \E fix \in PlaybackFixes : Free /\ HandlePosition(fix)
    \/ Free /\ TriggerEmergency
    \/ Free /\ ReportBreakdown
    \/ now > WarmAlerts /\ StartPlayback
    \/ now > WarmAlerts /\ StopPlayback
    \/ \E device \in Devices :
          Free /\ PositionInsert(PositionRow(now, device, IF device = "dev-1" THEN "Surface" ELSE ""))
    \/ Free /\ AlertInsert(AlertRow(now, "dev-2", 0))
    \/ \E alertId \in { sb.alerts[i].id : i \in 1 .. Min(1, Len(sb.alerts)) } :
          Free /\ FeedDismissAlert(alertId)

SpecLong == InitLong /\ [][NextLong]_vars

\* history holds the last HistoryCap entries of all, in their order
MostRecent(history, all) ==
    /\ Len(history) = Min(Len(all), HistoryCap)
    /\ \A i \in 1 .. Len(history) : history[i] = all[Len(all) - Len(history) + i]

\* the positions the hook derives from the rows that pass Keep
SelectRows(rows, Keep(_)) ==
    LET kept == SelectSeq(rows, Keep)
    IN  [i \in 1 .. Len(kept) |-> toGPSPosition(kept[i])]

\* C5: every history has at most 200 entries, exactly 200 once more than 200
\* positions were appended to it, and is then the most recent 200 of them in
\* arrival order
C5_BoundedHistory ==
    /\ MostRecent(state.trackHistory, appended)
    /\ \A d \in Devices :
         LET OfDevice(row) == row.device_id = d
         IN  MostRecent(sb.allDeviceTrackHistory[d], SelectRows(fed.positions, OfDevice))
    /\ LET Shown(row) == selectedDeviceId = "" \/ row.device_id = selectedDeviceId
       IN  MostRecent(sb.trackHistory, SelectRows(fed.positions, Shown))

C5_Witness ==
    /\ Len(appended) > HistoryCap
    /\ Len(state.trackHistory) = HistoryCap
    /\ selectedDeviceId = "dev-1"
    /\ Len(sb.trackHistory) = HistoryCap
    /\ Len(sb.allDeviceTrackHistory["dev-1"]) = HistoryCap
    /\ Len(fed.positions) > HistoryCap

\* an alert but for its read flag
Unread(alert) == [alert EXCEPT !.isRead = FALSE]

\* list holds the last AlertCap entries of all, the newest first
NewestFirst(list, all) ==
    /\ Len(list) = Min(Len(all), AlertCap)
    /\ \A i \in 1 .. Len(list) : Unread(list[i]) = Unread(all[Len(all) - i + 1])

AlertsOf(rows) == [i \in 1 .. Len(rows) |-> toAlert(rows[i])]

\* C6: each alert list has at most 50 entries, the newest first; once more
\* than 50 alerts were recorded it has exactly 50 and the oldest are gone
C6_BoundedAlerts ==
    /\ NewestFirst(state.alerts, produced)
    /\ NewestFirst(sb.alerts, AlertsOf(fed.alerts))

C6_Witness ==
    /\ Len(produced) > AlertCap
    /\ Len(state.alerts) = AlertCap
    /\ state.alerts[1].type = "emergency"
    /\ Len(fed.alerts) > AlertCap
    /\ Len(sb.alerts) = AlertCap

----------------------------------------------------------------------------
(* Manual alarms: the hook under fixes, the emergency and breakdown controls, *)
(* dismissals and playback, within MaxAlarmClock clock readings               *)

AlarmFixes == { f \in FixInputs : f.variation = 0 }

NextAlarm ==
    \/ \E fix \in AlarmFixes : now <= MaxAlarmClock /\ HandlePosition(fix)
    \/ now <= MaxAlarmClock /\ TriggerEmergency
    \/ now <= MaxAlarmClock /\ ReportBreakdown
    \/ ClearEmergency
    \/ StartPlayback
    \/ StopPlayback
    \/ PlaybackTick
    \/ \E alertId \in AlertIds : DismissAlert(alertId)

SpecAlarm == Init /\ [][NextAlarm]_vars

\* what a manual alarm has to leave behind
ManualAlarmDone(type, priority, status) ==
    IF state.currentPosition = Null
    THEN state' = state
    ELSE /\ Len(state'.alerts) = Min(Len(state.alerts) + 1, AlertCap)
         /\ state'.alerts[1].type = type
         /\ state'.alerts[1].priority = priority
         /\ ~state'.alerts[1].isRead
         /\ state'.alerts[1].location.lat = state.currentPosition.latitude
         /\ state'.alerts[1].location.lng = state.currentPosition.longitude
         /\ \A i \in 2 .. Len(state'.alerts) : state'.alerts[i] = state.alerts[i - 1]
         /\ state'.device.status = status
         /\ state' = [state EXCEPT !.alerts = state'.alerts, !.device.status = status]

\* C11: triggerEmergency and reportBreakdown without a current position change
\* nothing; with one they put exactly one alert (emergency, critical /
\* breakdown, high) at the head of the list and set the device status to
\* emergency / breakdown
C11_ManualAlarms ==
    [][ /\ TriggerEmergency => ManualAlarmDone("emergency", "critical", "emergency")
        /\ ReportBreakdown => ManualAlarmDone("breakdown", "high", "breakdown") ]_vars

C11_Witness ==
    /\ Len(state.alerts) >= 2
    /\ state.alerts[1].type = "breakdown"
    /\ state.alerts[2].type = "emergency"
    /\ state.device.status = "breakdown"

----------------------------------------------------------------------------
(* Seeking, under SpecPlayback *)

Clamp(index, len) == Max(0, Min(index, len - 1))

\* C12: on a history that is not empty, setPlaybackIndex with any integer
\* stores the index clamped into [0, length - 1] as the cursor and leaves the
\* playing flag as it was
C12_SeekClamps ==
    [][ \A index \in SeekIndexes :
          (Len(state.trackHistory) >= 1 /\ SetPlaybackIndex(index)) =>
            /\ state'.playbackIndex = Clamp(index, Len(state.trackHistory))
            /\ state'.isPlaying = state.isPlaying ]_vars

\* C13: startPlayback, called without a cursor (-1) or with a cursor inside the
\* history, leaves the hook playing, with the cursor at 0 if there was none
\* and at the cursor it had otherwise
C13_StartKeepsCursor ==
    [][ (StartPlayback /\ state.playbackIndex < Len(state.trackHistory)) =>
          /\ state'.isPlaying
          /\ state'.playbackIndex =
               IF state.playbackIndex < 0 THEN 0 ELSE state.playbackIndex ]_vars

\* C14: stopPlayback on a history that is not empty leaves the hook not
\* playing at the cursor it had; on an empty history it leaves it without a
\* cursor (-1)
C14_StopPausesAtCursor ==
    [][ StopPlayback =>
          /\ ~state'.isPlaying
          /\ state'.playbackIndex =
               IF Len(state.trackHistory) = 0 THEN -1 ELSE state.playbackIndex ]_vars

----------------------------------------------------------------------------
(* The simulator: useSupabaseTracking with the simulation switched on and    *)
(* off by the page and by direct calls, its intervals and calls in flight,   *)
(* and the change feed delivering what it wrote                              *)

NextSim ==
    \/ \E ok \in BOOLEAN, jitter \in Jitters : FetchInitialData(ok, jitter)
    \/ \E ok \in BOOLEAN, jitter \in Jitters : HandleToggleSimulation(ok, jitter)
    \/ \E ok \in BOOLEAN, jitter \in Jitters : StartSimulation(ok, jitter)
    \/ StopSimulation
    \/ \E ok \in BOOLEAN, jitter \in Jitters : SimulationTimer(ok, jitter)
    \/ \E k \in 1 .. MaxSimRuns, ok \in BOOLEAN, jitter \in Jitters : SimulationResume(k, ok, jitter)
    \/ DeliverPosition
    \/ \E ok \in BOOLEAN, jitter \in Jitters : DeliverDeviceUpdate(ok, jitter)

SpecSim == Init /\ [][NextSim]_vars

----------------------------------------------------------------------------
(* The change feed: useSupabaseTracking with rows of other writers, the      *)
(* manual alarms and the simulator switched by the page                      *)

NextFeed ==
    \/ \E ok \in BOOLEAN, jitter \in Jitters : FetchInitialData(ok, jitter)
    \/ \E ok \in BOOLEAN, jitter \in Jitters : HandleToggleSimulation(ok, jitter)
    \/ \E ok \in BOOLEAN, jitter \in Jitters : SimulationTimer(ok, jitter)
    \/ DeliverPosition
    \/ DeliverAlert
    \/ \E ok \in BOOLEAN, jitter \in Jitters : DeliverDeviceUpdate(ok, jitter)
    \/ \E device \in Devices, signal \in ForeignSignals : ForeignPosition(device, signal)
    \/ \E ok \in BOOLEAN : FeedTriggerEmergency(ok)
    \/ \E ok \in BOOLEAN : FeedReportBreakdown(ok)

SpecFeed == Init /\ [][NextFeed]_vars

\* the names of the zones of createMineZones and the labels the simulator gives
ConfiguredZoneNames ==
    { createMineZones(0, 0)[i].name : i \in 1 .. Len(createMineZones(0, 0)) }
        \cup { zoneOfDepth(depth) : depth \in { 1, 31, 101, 201 } }

ZoneLabelOk(pos) == pos = Null \/ pos.zone \in ConfiguredZoneNames \cup { "Surface" }

\* C15: every position held as a current position or in a history carries the
\* name of a configured zone or "Surface" as its zone label
C15_ZoneLabels ==
    /\ ZoneLabelOk(state.currentPosition)
    /\ \A i \in 1 .. Len(state.trackHistory) : ZoneLabelOk(state.trackHistory[i])
    /\ ZoneLabelOk(sb.currentPosition)
    /\ \A i \in 1 .. Len(sb.trackHistory) : ZoneLabelOk(sb.trackHistory[i])
    /\ \A d \in Devices :
         /\ ZoneLabelOk(sb.allDevicePositions[d])
         /\ \A i \in 1 .. Len(sb.allDeviceTrackHistory[d]) :
              ZoneLabelOk(sb.allDeviceTrackHistory[d][i])

\* C16: at most one playback interval and at most one simulation interval is
\* running, and none of a kind while its ref holds no handle (after a stop)
C16_OneTimerPerConcern ==
    /\ activeTimers <= 1
    /\ sim.timers <= 1
    /\ playbackRef = "null" => activeTimers = 0
    /\ sim.simulationRef = "null" => sim.timers = 0

----------------------------------------------------------------------------
(* Progress of the simulated devices, under SpecSim *)

\* simulatePosition turns a record has had since it was created
Steps(record) == record.pathIndex * StepsPerSegment + record.progress

Tracked(sm, d) == sm.simulationState[d] # 0

RecordOf(sm, d) == sm.heap[sm.simulationState[d]]

\* every simulated device has a record made by this start: the first device
\* has had the one turn of the call startSimulation makes, the others none
FreshStart(sm, devices) ==
    LET paths == devicePaths(devices)
    IN  \A i \in 1 .. Len(paths) :
          /\ Tracked(sm, paths[i].deviceId)
          /\ Steps(RecordOf(sm, paths[i].deviceId)) = IF i = 1 THEN 1 ELSE 0

NoProgress(sm) ==
    /\ \A d \in Devices : ~Tracked(sm, d)
    /\ \A r \in Refs : sm.heap[r] = Null

\* C17: stopSimulation leaves no progress record, and a startSimulation after
\* it (directly, or in the simulation effect, which stops and starts) begins
\* every simulated device at path index 0 with progress 0
C17_StopClearsProgress ==
    [][ /\ StopSimulation => NoProgress(sim')
        /\ \A ok \in BOOLEAN, jitter \in Jitters :
             /\ (StartSimulation(ok, jitter) /\ NoProgress(sim) /\ sb.devices # << >>)
                   => FreshStart(sim', sb'.devices)
             /\ (HandleToggleSimulation(ok, jitter) \/ DeliverDeviceUpdate(ok, jitter)
                   \/ FetchInitialData(ok, jitter))
                   => IF sb'.isSimulating THEN FreshStart(sim', sb'.devices)
                      ELSE NoProgress(sim') ]_vars

\* a start after a stop, reached after the devices had made progress
C17_Witness ==
    /\ store.written = MaxSimRows
    /\ sim.simulationRef = "live"
    /\ sb.devices # << >>
    /\ FreshStart(sim, sb.devices)

\* C18: startSimulation while every simulated device has a progress record
\* leaves the records and their owners as they were
C18_StartIdempotent ==
    [][ \A ok \in BOOLEAN, jitter \in Jitters :
          ( /\ StartSimulation(ok, jitter)
            /\ sb.devices # << >>
            /\ \A i \in 1 .. Len(devicePaths(sb.devices)) :
                 Tracked(sim, devicePaths(sb.devices)[i].deviceId) )
          => /\ sim'.simulationState = sim.simulationState
             /\ sim'.heap = sim.heap ]_vars

\* the devices other than the one whose turn a step was, given the turn's index
Others(i) == { d \in Devices : d # devicePaths(sb.devices)[i].deviceId }

Untouched(ds) ==
    \A d \in ds :
        /\ Tracked(sim', d) = Tracked(sim, d)
        /\ Tracked(sim, d) => RecordOf(sim', d) = RecordOf(sim, d)

\* C19: a device's turn in simulatePosition leaves the path index and progress
\* of every other device as they were, and no two devices own one record
C19_IndependentProgress ==
    [][ /\ \A d, e \in Devices :
             (d # e /\ Tracked(sim', d)) => sim'.simulationState[d] # sim'.simulationState[e]
        /\ \A ok \in BOOLEAN, jitter \in Jitters :
             /\ SimulationTimer(ok, jitter) => Untouched(Others(1))
             /\ \A k \in 1 .. Len(sim.runs) :
                  SimulationResume(k, ok, jitter) => Untouched(Others(sim.runs[k])) ]_vars

\* the second device has had a turn after the first
C19_Witness ==
    /\ \A d \in Devices : Tracked(sim, d)
    /\ Steps(RecordOf(sim, "dev-1")) = 1
    /\ Steps(RecordOf(sim, "dev-2")) = 1
    /\ sim.runs = << >>

----------------------------------------------------------------------------
(* Manual alarms of useSupabaseTracking, under SpecFeed *)

ManualAlertTypes == { "emergency", "breakdown" }

\* the emergency and breakdown alerts of the hook's alert list
LocalManualAlerts == SelectSeq(sb.alerts, LAMBDA a : a.type \in ManualAlertTypes)

\* C20: every triggerEmergency and reportBreakdown made with the device and
\* its position known has its alert in the hook's alert list once the change
\* feed has nothing left to deliver, whether its insert succeeded or failed
C20_LocalAlertDespiteFailure ==
    store.alerts = << >> => Len(LocalManualAlerts) = store.alarms

----------------------------------------------------------------------------
(* Positions of the change feed as fixes, under SpecFeed *)

\* the position of device d has been replaced by one whose signal is under
\* the threshold, the one before having been at or over it
SignalFell(d) ==
    /\ sb.allDevicePositions[d] # Null
    /\ sb'.allDevicePositions[d] # sb.allDevicePositions[d]
    /\ sb.allDevicePositions[d].signalStrength >= SignalThreshold
    /\ sb'.allDevicePositions[d].signalStrength < SignalThreshold

\* C21: a position of the change feed or of the simulator whose signal falls
\* from 20 or more to under 20 for its device puts a signal_lost alert at the
\* head of the alert list, in the step that appends it to the history
C21_FeedPositionsAlert ==
    [][ \A d \in Devices :
          SignalFell(d) => /\ Len(sb'.alerts) = Len(sb.alerts) + 1
                           /\ sb'.alerts[1].type = "signal_lost" ]_vars

----------------------------------------------------------------------------
(* The simulator anywhere on its paths: the devices loaded, the simulation   *)
(* running, every simulated device at some node of its path with some        *)
(* progress, as after any number of turns; one device is taken anywhere on   *)
(* its path while the other is at its first node                             *)

PathStart == [pathIndex |-> 0, progress |-> 0]

PathRecords(pathType) ==
    [ pathIndex : 0 .. Len(createTunnelPath(pathType)) - 1,
      progress  : 0 .. StepsPerSegment - 1 ]

InitPath ==
    /\ state = InitialState
    /\ playbackRef = "null"
    /\ activeTimers = 0
    /\ initialPositionSet = FALSE
    /\ now = 1
    /\ received = << >>
    /\ appended = << >>
    /\ produced = << >>
    /\ run = Unobserved
    /\ selectedDeviceId = ""
    /\ fed = [positions |-> << >>, alerts |-> << >>]
    /\ page = [InitialPage EXCEPT !.simulationEnabled = TRUE]
    /\ store = InitialStore
    /\ sb = [ InitialFeedState EXCEPT !.devices = Fleet,
                                      !.currentDevice = toDevice(Fleet[1]),
                                      !.isSimulating = TRUE ]
    /\ \E first \in PathRecords("path1"), second \in PathRecords("path2") :
         /\ first = PathStart \/ second = PathStart
         /\ sim = [ simulationRef   |-> "live",
                   timers          |-> 1,
                   simulationState |-> [d \in Devices |-> IF d = "dev-1" THEN 1 ELSE 2],
                   heap            |-> [r \in Refs |-> IF r = 1 THEN first ELSE second],
                   runs            |-> << >> ]

NextPath ==
    \/ \E ok \in BOOLEAN, jitter \in Jitters : SimulationTimer(ok, jitter)
    \/ \E k \in 1 .. MaxSimRuns, ok \in BOOLEAN, jitter \in Jitters : SimulationResume(k, ok, jitter)
    \/ \E ok \in BOOLEAN, jitter \in Jitters : DeliverDeviceUpdate(ok, jitter)

SpecPath == InitPath /\ [][NextPath]_vars

PathOf(d) ==
    LET paths == devicePaths(sb.devices)
        i     == CHOOSE j \in 1 .. Len(paths) : paths[j].deviceId = d
    IN  createTunnelPath(paths[i].pathType)

\* the records of the simulated devices are on their paths, under one segment
RecordsInRange(sm) ==
    \A d \in Devices :
        Tracked(sm, d) =>
            /\ RecordOf(sm, d).pathIndex \in 0 .. Len(PathOf(d)) - 1
            /\ RecordOf(sm, d).progress \in 0 .. StepsPerSegment - 1

\* the turn of the i-th simulated device: with the progress due (the segment
\* done, or of length 0) its record is at the next node, wrapping, with
\* progress 0 and the row written is that node; otherwise only the progress grew
TurnOk(i) ==
    LET d    == devicePaths(sb.devices)[i].deviceId
        path == PathOf(d)
        st   == RecordOf(sim, d)
        next == (st.pathIndex + 1) % Len(path)
        due  == \/ st.progress + 1 >= StepsPerSegment
                \/ path[st.pathIndex + 1].nodeId = path[next + 1].nodeId
        rows == store'.positions
    IN  Tracked(sim, d) =>
          IF due
          THEN /\ RecordOf(sim', d) = [pathIndex |-> next, progress |-> 0]
               /\ Len(rows) > Len(store.positions) =>
                    /\ rows[Len(rows)].latitude = path[next + 1].lat
                    /\ rows[Len(rows)].longitude = path[next + 1].lng
                    /\ rows[Len(rows)].depth = path[next + 1].depth
          ELSE RecordOf(sim', d) = [st EXCEPT !.progress = @ + 1]

\* C22: after every turn of the simulator each simulated device is at a node of
\* its path with progress under one segment; when the progress is due the path
\* index goes up by one, wrapping to 0, the progress is 0 and the position
\* written is that node, also on a segment of length 0
C22_SimulatorProgress ==
    [][ /\ RecordsInRange(sim')
        /\ \A ok \in BOOLEAN, jitter \in Jitters :
             /\ SimulationTimer(ok, jitter) => TurnOk(1)
             /\ \A k \in 1 .. Len(sim.runs) :
                  SimulationResume(k, ok, jitter) => TurnOk(sim.runs[k]) ]_vars

\* the first device has wrapped from the last node of its path to the first,
\* a segment of length 0, and its row is the first node
C22_Witness ==
    /\ RecordOf(sim, "dev-1") = [pathIndex |-> 0, progress |-> 0]
    /\ store.positions # << >>
    /\ store.positions[Len(store.positions)].device_id = "dev-1"
    /\ store.positions[Len(store.positions)].depth = 0
    /\ store.written = 1

----------------------------------------------------------------------------
(* The dashboard page: its playback state over the history that              *)
(* useSupabaseTracking exposes, fed by the change feed                       *)

NextPage ==
    \/ \E device \in Devices :
         now <= MaxPageFixes /\ PositionInsert(PositionRow(now, device, "Surface"))
    \/ HandleTogglePlay
    \/ HandleStop
    \/ HandleSkipBack
    \/ HandleSkipForward
    \/ \E speed \in PageSpeeds : PageSetPlaybackSpeed(speed)
    \/ PageTick

SpecPage == Init /\ [][NextPage]_vars

\* C23: whatever the speed, a tick of the page's playback interval moves the
\* cursor by exactly one and stays playing, or, from the last index, stays at
\* the last index and stops playing
C23_PageTickStepsByOne ==
    [][ PageTick =>
          IF page.playbackIndex + 1 >= Len(sb.trackHistory)
          THEN /\ page'.playbackIndex = Len(sb.trackHistory) - 1
               /\ ~page'.isPlaying
          ELSE /\ page'.playbackIndex = page.playbackIndex + 1
               /\ page'.isPlaying ]_vars

----------------------------------------------------------------------------
(* Turns of one simulatePosition call and what may come between them, under  *)
(* SpecSim                                                                   *)

\* a simulatePosition call has handled its first device and not yet its last
InFlight == sim.runs # << >>

\* C24: while a simulatePosition call is in flight no stopSimulation,
\* startSimulation or further call takes effect: the interval handle, the
\* running intervals and the owners of the progress records stay as they are,
\* no record is cleared and no call is added
C24_TickAtomic ==
    [][ InFlight =>
          /\ sim'.simulationRef = sim.simulationRef
          /\ sim'.timers = sim.timers
          /\ sim'.simulationState = sim.simulationState
          /\ \A r \in Refs : sim.heap[r] # Null => sim'.heap[r] # Null
          /\ Len(sim'.runs) <= Len(sim.runs) ]_vars

----------------------------------------------------------------------------
(* Identity of alerts, under Spec *)

\* C25: no two alerts of the alert list have the same id
C25_DistinctAlertIds ==
    \A i, j \in 1 .. Len(state.alerts) :
        i # j => state.alerts[i].id # state.alerts[j].id

----------------------------------------------------------------------------
(* The exposed history and the current device, under SpecFeed *)

\* the step delivered a position row of a device other than the current one
DeliveredForOther ==
    /\ sb.currentDevice # Null
    /\ Len(fed'.positions) = Len(fed.positions) + 1
    /\ fed'.positions[Len(fed'.positions)].device_id # sb.currentDevice.id

\* C26: a position row of the change feed for a device other than the current
\* device leaves the exposed current position and track history as they were
C26_OtherDeviceLeavesHistory ==
    [][ DeliveredForOther =>
          /\ sb'.currentPosition = sb.currentPosition
          /\ sb'.trackHistory = sb.trackHistory ]_vars

----------------------------------------------------------------------------
(* Device updates while the simulation is on, under SpecPath *)

\* C27: with the simulation mode on and running, a device UPDATE delivered by
\* the change feed leaves the interval, the owners of the progress records and
\* the records as they were
C27_DeviceUpdateKeepsSimulation ==
    [][ \A ok \in BOOLEAN, jitter \in Jitters :
          ( /\ DeliverDeviceUpdate(ok, jitter)
            /\ page.simulationEnabled
            /\ sb.isSimulating )
          => /\ sim'.simulationRef = sim.simulationRef
             /\ sim'.timers = sim.timers
             /\ sim'.simulationState = sim.simulationState
             /\ sim'.heap = sim.heap ]_vars

----------------------------------------------------------------------------
(* The playback timer of useTracking, under SpecPlayback *)

\* C28: while the playing flag is set a playback interval is running
C28_PlayingHasTimer ==
    state.isPlaying => activeTimers >= 1

----------------------------------------------------------------------------
(* The location of a manual alarm, under Spec *)

\* the location snapshot of a position
LocationOf(pos) == [lat |-> pos.latitude, lng |-> pos.longitude, depth |-> pos.depth]

\* C29: the alert that triggerEmergency or reportBreakdown records carries the
\* location of the newest entry of the history, whatever the playback cursor
C29_AlarmAtNewestFix ==
    [][ ( /\ TriggerEmergency \/ ReportBreakdown
          /\ state.currentPosition # Null
          /\ state.trackHistory # << >> )
        => state'.alerts[1].location = LocationOf(Last(state.trackHistory)) ]_vars

----------------------------------------------------------------------------
(* Geofences added by addGeofence, under Spec *)

\* the fences of a state that addGeofence made
AddedFences(st) ==
    { st.geofences[g] : g \in { h \in 1 .. Len(st.geofences) : st.geofences[h].id[1] = "geofence" } }

\* C30: a geofence made by addGeofence is in the geofence set after every later
\* step
C30_AddedGeofenceStays ==
    [][ \A fence \in AddedFences(state) : fence \in AddedFences(state') ]_vars

====
